---- MODULE Spec2Model ----
(***************************************************************************)
(* A model of nure_tools: the response envelope handler (get_wrapper),     *)
(* the entity decoders (the parse functions, the loop of get_schedule),    *)
(* the name matcher (find), the query facade, and the Period constructors  *)
(* from_string, from_timestamp and this_week.                              *)
(*                                                                         *)
(* Representation.                                                         *)
(*  - A string is a sequence of one-character strings, so that             *)
(*    to_lowercase and the regex match are computed, not assumed.          *)
(*  - A JSON value is a tagged record: [t |-> "null"], [t |-> "bool"],     *)
(*    [t |-> "num", k, l], [t |-> "str", s], [t |-> "arr", a],             *)
(*    [t |-> "obj", o] with o a function from its keys to JSON values.     *)
(*  - A JSON number is serde_json's Number: k is "PosInt" (a u64),         *)
(*    "NegInt" (a negative i64) or "Float"; l holds the 64 bits as four    *)
(*    16-bit limbs, least significant first (two's complement for          *)
(*    NegInt).  An i64 is such a limb tuple; i32 and u8 are integers.      *)
(*  - A call's outcome is [k |-> "Ok", v], [k |-> "Err", e] or             *)
(*    [k |-> "Panic"] (an unwrap() on None aborts the call).               *)
(***************************************************************************)
EXTENDS Integers, Sequences, FiniteSets, TLC

VARIABLES pc, running, op, arg, http, envelope, result, requests, clock

vars == <<pc, running, op, arg, http, envelope, result, requests, clock>>

(***************************************************************************)
(* Bounds of the model.                                                    *)
(***************************************************************************)
\* longest top-level array of group / teacher / room objects in a response
MaxRecords == 2
\* longest top-level array of lecture objects in a schedule response
MaxLectures == 2
\* the GETs one call can send before the model stops counting
MaxRequests == 2

(***************************************************************************)
(* 64-bit integers as four 16-bit limbs.                                   *)
(***************************************************************************)
Limb == 2^16

HalfLimb == 2^15

ZeroLimbs == <<0, 0, 0, 0>>

\* the i64 (or u64, when n >= 0) bit pattern of an integer n of 32-bit range
FromInt(n) ==
    IF n >= 0
    THEN <<n % Limb, n \div Limb, 0, 0>>
    ELSE <<n % Limb, (n \div Limb) % Limb, Limb - 1, Limb - 1>>

\* i64 < 0
IsNegative(l) == l[4] >= HalfLimb

\* unsigned comparison of two limb tuples
LimbsLess(a, b) ==
    \/ a[4] < b[4]
    \/ a[4] = b[4] /\ a[3] < b[3]
    \/ a[4] = b[4] /\ a[3] = b[3] /\ a[2] < b[2]
    \/ a[4] = b[4] /\ a[3] = b[3] /\ a[2] = b[2] /\ a[1] < b[1]

\* Rust's `x as i32` on an i64: the low 32 bits, read as two's complement
cast_i32(l) ==
    IF l[2] >= HalfLimb
    THEN (l[2] - Limb) * Limb + l[1]
    ELSE l[2] * Limb + l[1]

\* Rust's `x as u8` on an i64: the low 8 bits
cast_u8(l) == l[1] % 256

(***************************************************************************)
(* JSON values (serde_json::Value).                                        *)
(***************************************************************************)
JNull == [t |-> "null"]

JBool(b) == [t |-> "bool", b |-> b]

JStr(s) == [t |-> "str", s |-> s]

JArr(a) == [t |-> "arr", a |-> a]

JObj(o) == [t |-> "obj", o |-> o]

\* an integer literal of 32-bit range
JInt(n) == [t |-> "num", k |-> IF n >= 0 THEN "PosInt" ELSE "NegInt", l |-> FromInt(n)]

\* a non-negative integer literal given by its limbs (up to u64::MAX)
JPos(l) == [t |-> "num", k |-> "PosInt", l |-> l]

\* a negative integer literal given by its two's complement limbs
JNeg(l) == [t |-> "num", k |-> "NegInt", l |-> l]

\* a literal that is not an integer (1.5), or too large for 64 bits
JFloat == [t |-> "num", k |-> "Float", l |-> ZeroLimbs]

\* Map::get(key).is_some()
Has(obj, key) == key \in DOMAIN obj

\* `if let Some(Value::Number(n)) = obj.get(key)`
HasNumber(obj, key) == Has(obj, key) /\ obj[key].t = "num"

\* `if let Some(Value::String(st)) = obj.get(key)`
HasString(obj, key) == Has(obj, key) /\ obj[key].t = "str"

\* Number::as_i64: Some for an integer that fits an i64, None otherwise
as_i64(n) ==
    CASE n.k = "PosInt" ->
           IF IsNegative(n.l) THEN [some |-> FALSE] ELSE [some |-> TRUE, v |-> n.l]
      [] n.k = "NegInt" -> [some |-> TRUE, v |-> n.l]
      [] OTHER -> [some |-> FALSE]

\* Option::unwrap_or(0)
unwrap_or_0(opt) == IF opt.some THEN opt.v ELSE ZeroLimbs

\* `n.as_i64().unwrap_or(0) as i32`
number_to_id(n) == cast_i32(unwrap_or_0(as_i64(n)))

(***************************************************************************)
(* Entity decoders.                                                        *)
(***************************************************************************)
Group_new(id, name) == [id |-> id, name |-> name]

RECURSIVE parse_group_loop(_, _, _, _)
parse_group_loop(vector, id, name, acc) ==
    IF vector = <<>> THEN acc
    ELSE LET element == Head(vector) IN
         IF element.t = "obj"
         THEN LET obj == element.o
                  id2 == IF HasNumber(obj, "id") THEN number_to_id(obj["id"]) ELSE id
                  name2 == IF HasString(obj, "name") THEN obj["name"].s ELSE name
              IN parse_group_loop(Tail(vector), id2, name2,
                                  Append(acc, Group_new(id2, name2)))
         ELSE parse_group_loop(Tail(vector), id, name, acc)

parse_group_json(vector) == parse_group_loop(vector, 0, <<>>, <<>>)

LectureRoom_new(id, name) == [id |-> id, name |-> name]

RECURSIVE parse_lecture_room_loop(_, _, _, _)
parse_lecture_room_loop(vector, id, name, acc) ==
    IF vector = <<>> THEN acc
    ELSE LET element == Head(vector) IN
         IF element.t = "obj"
         THEN LET obj == element.o
                  id2 == IF HasNumber(obj, "id") THEN number_to_id(obj["id"]) ELSE id
                  name2 == IF HasString(obj, "name") THEN obj["name"].s ELSE name
              IN parse_lecture_room_loop(Tail(vector), id2, name2,
                                         Append(acc, LectureRoom_new(id2, name2)))
         ELSE parse_lecture_room_loop(Tail(vector), id, name, acc)

parse_lecture_room_json(vector) == parse_lecture_room_loop(vector, 0, <<>>, <<>>)

Teacher_new(id, short_name, full_name) ==
    [id |-> id, short_name |-> short_name, full_name |-> full_name]

\* parse_teacher_json pushing a record for the elements that are no objects too
RECURSIVE parse_teacher_loop_every_element(_, _, _, _, _)
parse_teacher_loop_every_element(vector, id, short_name, long_name, acc) ==
    IF vector = <<>> THEN acc
    ELSE LET element == Head(vector) IN
         IF element.t = "obj"
         THEN LET obj == element.o
                  id2 == IF HasNumber(obj, "id") THEN number_to_id(obj["id"]) ELSE id
                  short2 == IF HasString(obj, "shortName")
                            THEN obj["shortName"].s ELSE short_name
                  long2 == IF HasString(obj, "fullName")
                           THEN obj["fullName"].s ELSE long_name
              IN parse_teacher_loop_every_element(Tail(vector), id2, short2, long2,
                                    Append(acc, Teacher_new(id2, short2, long2)))
         ELSE parse_teacher_loop_every_element(Tail(vector), id, short_name, long_name,
                                    Append(acc, Teacher_new(id, short_name, long_name)))

RECURSIVE parse_teacher_loop(_, _, _, _, _)
parse_teacher_loop(vector, id, short_name, long_name, acc) ==
    IF vector = <<>> THEN acc
    ELSE LET element == Head(vector) IN
         IF element.t = "obj"
         THEN LET obj == element.o
                  id2 == IF HasNumber(obj, "id") THEN number_to_id(obj["id"]) ELSE id
                  short2 == IF HasString(obj, "shortName")
                            THEN obj["shortName"].s ELSE short_name
                  long2 == IF HasString(obj, "fullName")
                           THEN obj["fullName"].s ELSE long_name
              IN parse_teacher_loop(Tail(vector), id2, short2, long2,
                                    Append(acc, Teacher_new(id2, short2, long2)))
         ELSE parse_teacher_loop(Tail(vector), id, short_name, long_name, acc)

parse_teacher_json(vector) == parse_teacher_loop(vector, 0, <<>>, <<>>, <<>>)

(***************************************************************************)
(* Results of a call.                                                      *)
(***************************************************************************)
Ok(v) == [k |-> "Ok", v |-> v]

Err(e) == [k |-> "Err", e |-> e]

Panic == [k |-> "Panic"]

GetFailed == [kind |-> "GetFailed"]

NotJson == [kind |-> "NotJson"]

InvalidReturn == [kind |-> "InvalidReturn"]

BadResponse(reason, code) == [kind |-> "BadResponse", reason |-> reason, code |-> code]

InvalidGroupName(s) == [kind |-> "InvalidGroupName", s |-> s]

InvalidLectureRoomName(s) == [kind |-> "InvalidLectureRoomName", s |-> s]

InvalidTeacherName(s) == [kind |-> "InvalidTeacherName", s |-> s]

InvalidRegexString(s) == [kind |-> "InvalidRegexString", s |-> s]

InvalidStringProvided(s) == [kind |-> "InvalidStringProvided", s |-> s]

InvalidTimestampProvided(s) == [kind |-> "InvalidTimestampProvided", s |-> s]

(***************************************************************************)
(* Strings and the name matcher.                                           *)
(***************************************************************************)
\* char::to_lowercase on the model's alphabet
lower_char(c) ==
    CASE c = "A" -> "a"
      [] c = "B" -> "b"
      [] OTHER -> c

\* str::to_lowercase
to_lowercase(s) == [i \in 1..Len(s) |-> lower_char(s[i])]

\* Regex::new(pattern).is_ok() on the model's alphabet, which has "(" and no
\* ")": a pattern with "(" is an unclosed group, every other pattern compiles
regex_compiles(pattern) == \A i \in 1..Len(pattern) : pattern[i] # "("

\* Regex::find(text).is_some() for a compiled pattern of the model's alphabet:
\* "." matches any character, every other character matches itself, and the
\* match may start anywhere in text
regex_find(pattern, text) ==
    \E i \in 0..(Len(text) - Len(pattern)) :
        \A j \in 1..Len(pattern) : pattern[j] = "." \/ pattern[j] = text[i + j]

\* find reporting the lower-cased needle in its error
find_lowercased_error(find_it, search_here) ==
    IF ~regex_compiles(to_lowercase(find_it))
    THEN Err(InvalidRegexString(to_lowercase(find_it)))
    ELSE Ok(regex_find(to_lowercase(find_it), to_lowercase(search_here)))

find(find_it, search_here) ==
    IF ~regex_compiles(to_lowercase(find_it))
    THEN Err(InvalidRegexString(find_it))
    ELSE Ok(regex_find(to_lowercase(find_it), to_lowercase(search_here)))

(***************************************************************************)
(* The response envelope handler.                                          *)
(* An HTTP outcome is [t |-> "TransportError"] or                          *)
(* [t |-> "Response", status, body]; a body is [json |-> FALSE] (it does   *)
(* not parse as JSON) or [json |-> TRUE, v |-> the decoded value].         *)
(***************************************************************************)
TransportError == [t |-> "TransportError"]

Response(status, body) == [t |-> "Response", status |-> status, body |-> body]

NotJsonBody == [json |-> FALSE]

JsonBody(v) == [json |-> TRUE, v |-> v]

\* StatusCode::canonical_reason().unwrap_or("") for the statuses of the model
canonical_reason(status) ==
    CASE status = 200 -> "OK"
      [] status = 201 -> "Created"
      [] status = 204 -> "No Content"
      [] status = 404 -> "Not Found"
      [] status = 500 -> "Internal Server Error"
      [] OTHER -> ""

\* get_wrapper taking every 2xx status for a success
get_wrapper_any_2xx(get_response) ==
    IF get_response.t = "Response"
    THEN IF get_response.status \div 100 = 2
         THEN IF get_response.body.json
              THEN Ok(get_response.body.v)
              ELSE Err(NotJson)
         ELSE Err(BadResponse(canonical_reason(get_response.status),
                              get_response.status))
    ELSE Err(GetFailed)

get_wrapper(get_response) ==
    IF get_response.t = "Response"
    THEN IF get_response.status = 200
         THEN IF get_response.body.json
              THEN Ok(get_response.body.v)
              ELSE Err(NotJson)
         ELSE Err(BadResponse(canonical_reason(get_response.status),
                              get_response.status))
    ELSE Err(GetFailed)

(***************************************************************************)
(* The query facade: groups, teachers, lecture rooms.                      *)
(***************************************************************************)
get_groups(get_response) ==
    LET response == get_wrapper(get_response) IN
    IF response.k # "Ok" THEN response
    ELSE IF response.v.t = "arr"
         THEN Ok(parse_group_json(response.v.a))
         ELSE Err(InvalidReturn)

get_teachers(get_response) ==
    LET response == get_wrapper(get_response) IN
    IF response.k # "Ok" THEN response
    ELSE IF response.v.t = "arr"
         THEN Ok(parse_teacher_json(response.v.a))
         ELSE Err(InvalidReturn)

get_lecture_rooms(get_response) ==
    LET response == get_wrapper(get_response) IN
    IF response.k # "Ok" THEN response
    ELSE IF response.v.t = "arr"
         THEN Ok(parse_lecture_room_json(response.v.a))
         ELSE Err(InvalidReturn)

\* the `for group in groups { if find(name, &group.name)? { result.push(group) } }`
\* loop: Ok(the matches) or the first error of find
RECURSIVE find_group_loop(_, _, _)
find_group_loop(name, groups, acc) ==
    IF groups = <<>> THEN Ok(acc)
    ELSE LET group == Head(groups)
             found == find(name, group.name)
         IN IF found.k = "Err" THEN found
            ELSE find_group_loop(name, Tail(groups),
                                 IF found.v THEN Append(acc, group) ELSE acc)

\* find_group without the is_empty check
find_group_unchecked(name, get_response) ==
    LET groups == get_groups(get_response) IN
    IF groups.k # "Ok" THEN groups
    ELSE find_group_loop(name, groups.v, <<>>)

find_group(name, get_response) ==
    LET groups == get_groups(get_response) IN
    IF groups.k # "Ok" THEN groups
    ELSE LET res == find_group_loop(name, groups.v, <<>>) IN
         IF res.k # "Ok" THEN res
         ELSE IF res.v = <<>>
              THEN Err(InvalidGroupName(name))
              ELSE res

RECURSIVE find_teacher_loop(_, _, _)
find_teacher_loop(name, teachers, acc) ==
    IF teachers = <<>> THEN Ok(acc)
    ELSE LET teacher == Head(teachers)
             found == find(name, teacher.full_name)
         IN IF found.k = "Err" THEN found
            ELSE find_teacher_loop(name, Tail(teachers),
                                   IF found.v THEN Append(acc, teacher) ELSE acc)

find_teacher(name, get_response) ==
    LET teachers == get_teachers(get_response) IN
    IF teachers.k # "Ok" THEN teachers
    ELSE LET res == find_teacher_loop(name, teachers.v, <<>>) IN
         IF res.k # "Ok" THEN res
         ELSE IF res.v = <<>>
              THEN Err(InvalidTeacherName(name))
              ELSE res

RECURSIVE find_lecture_room_loop(_, _, _)
find_lecture_room_loop(name, lecture_rooms, acc) ==
    IF lecture_rooms = <<>> THEN Ok(acc)
    ELSE LET lecture_room == Head(lecture_rooms)
             found == find(name, lecture_room.name)
         IN IF found.k = "Err" THEN found
            ELSE find_lecture_room_loop(name, Tail(lecture_rooms),
                                        IF found.v THEN Append(acc, lecture_room)
                                        ELSE acc)

find_lecture_room(name, get_response) ==
    LET lecture_rooms == get_lecture_rooms(get_response) IN
    IF lecture_rooms.k # "Ok" THEN lecture_rooms
    ELSE LET res == find_lecture_room_loop(name, lecture_rooms.v, <<>>) IN
         IF res.k # "Ok" THEN res
         ELSE IF res.v = <<>>
              THEN Err(InvalidLectureRoomName(name))
              ELSE res

\* the `for group in groups { if name.to_lowercase() == group.name.to_lowercase()
\* { return Ok(group) } }` scan
\* the last of the groups of that name
RECURSIVE find_exect_group_loop_last(_, _)
find_exect_group_loop_last(name, groups) ==
    IF groups = <<>> THEN Err(InvalidGroupName(name))
    ELSE LET later == find_exect_group_loop_last(name, Tail(groups)) IN
         IF later.k = "Ok" THEN later
         ELSE IF to_lowercase(name) = to_lowercase(Head(groups).name)
              THEN Ok(Head(groups))
              ELSE later

RECURSIVE find_exect_group_loop(_, _)
find_exect_group_loop(name, groups) ==
    IF groups = <<>> THEN Err(InvalidGroupName(name))
    ELSE IF to_lowercase(name) = to_lowercase(Head(groups).name)
         THEN Ok(Head(groups))
         ELSE find_exect_group_loop(name, Tail(groups))

find_exect_group(name, get_response) ==
    LET groups == get_groups(get_response) IN
    IF groups.k # "Ok" THEN groups
    ELSE find_exect_group_loop(name, groups.v)

RECURSIVE find_exect_teacher_loop(_, _)
find_exect_teacher_loop(name, teachers) ==
    IF teachers = <<>> THEN Err(InvalidTeacherName(name))
    ELSE IF to_lowercase(name) = to_lowercase(Head(teachers).short_name)
         THEN Ok(Head(teachers))
         ELSE find_exect_teacher_loop(name, Tail(teachers))

find_exect_teacher(name, get_response) ==
    LET teachers == get_teachers(get_response) IN
    IF teachers.k # "Ok" THEN teachers
    ELSE find_exect_teacher_loop(name, teachers.v)

RECURSIVE find_exect_lecture_room_loop(_, _)
find_exect_lecture_room_loop(name, lecture_rooms) ==
    IF lecture_rooms = <<>> THEN Err(InvalidGroupName(name))
    ELSE IF to_lowercase(name) = to_lowercase(Head(lecture_rooms).name)
         THEN Ok(Head(lecture_rooms))
         ELSE find_exect_lecture_room_loop(name, Tail(lecture_rooms))

find_exect_lecture_room(name, get_response) ==
    LET lecture_rooms == get_lecture_rooms(get_response) IN
    IF lecture_rooms.k # "Ok" THEN lecture_rooms
    ELSE find_exect_lecture_room_loop(name, lecture_rooms.v)

(***************************************************************************)
(* Decimal strings of 64-bit integers, and the date parser on them.        *)
(***************************************************************************)
\* quotient and remainder of an unsigned limb tuple by a small divisor
DivMod(l, d) ==
    LET n4 == l[4]
        n3 == (n4 % d) * Limb + l[3]
        n2 == (n3 % d) * Limb + l[2]
        n1 == (n2 % d) * Limb + l[1]
    IN [q |-> <<n1 \div d, n2 \div d, n3 \div d, n4 \div d>>, r |-> n1 % d]

\* l * m + a on unsigned limb tuples, with the carry out of the top limb
MulAdd(l, m, a) ==
    LET n1 == l[1] * m + a
        n2 == l[2] * m + (n1 \div Limb)
        n3 == l[3] * m + (n2 \div Limb)
        n4 == l[4] * m + (n3 \div Limb)
    IN [v |-> <<n1 % Limb, n2 % Limb, n3 % Limb, n4 % Limb>>, carry |-> n4 \div Limb]

\* the magnitude of a negative i64: two's complement negation
Negate(l) ==
    LET n1 == (Limb - 1 - l[1]) + 1
        n2 == (Limb - 1 - l[2]) + (n1 \div Limb)
        n3 == (Limb - 1 - l[3]) + (n2 \div Limb)
        n4 == (Limb - 1 - l[4]) + (n3 \div Limb)
    IN <<n1 % Limb, n2 % Limb, n3 % Limb, n4 % Limb>>

DigitChars == <<"0", "1", "2", "3", "4", "5", "6", "7", "8", "9">>

IsDigit(c) == \E d \in 1..10 : DigitChars[d] = c

DigitValue(c) == (CHOOSE d \in 1..10 : DigitChars[d] = c) - 1

RECURSIVE UDigits(_)
UDigits(l) ==
    IF l = ZeroLimbs THEN <<>>
    ELSE LET qr == DivMod(l, 10) IN Append(UDigits(qr.q), DigitChars[qr.r + 1])

\* i64::to_string
i64_to_string(l) ==
    IF IsNegative(l) THEN <<"-">> \o UDigits(Negate(l))
    ELSE IF l = ZeroLimbs THEN <<"0">> ELSE UDigits(l)

\* str::parse::<i64>() on a string of digits: None on overflow
RECURSIVE parse_i64_loop(_, _)
parse_i64_loop(s, acc) ==
    IF s = <<>> THEN [some |-> TRUE, v |-> acc]
    ELSE LET m == MulAdd(acc, 10, DigitValue(Head(s))) IN
         IF m.carry > 0 \/ IsNegative(m.v) THEN [some |-> FALSE]
         ELSE parse_i64_loop(Tail(s), m.v)

parse_i64(s) == parse_i64_loop(s, ZeroLimbs)

\* An instant is [secs |-> limbs, nanos |-> 0..999999999], counted from the epoch.
\* dateparser's unix_timestamp: the input matches ^[0-9]{10,19}$ and has 10
\* digits (seconds), 13 (milliseconds) or 19 (nanoseconds)
unix_timestamp(input) ==
    IF ~(Len(input) \in 10..19 /\ \A i \in 1..Len(input) : IsDigit(input[i]))
    THEN [some |-> FALSE]
    ELSE LET ts == parse_i64(input) IN
         IF ~ts.some THEN [some |-> FALSE]
         ELSE CASE Len(input) = 10 ->
                     [some |-> TRUE, v |-> [secs |-> ts.v, nanos |-> 0]]
                [] Len(input) = 13 ->
                     LET ms == DivMod(ts.v, 1000) IN
                     [some |-> TRUE, v |-> [secs |-> ms.q, nanos |-> ms.r * 1000000]]
                [] Len(input) = 19 ->
                     LET us == DivMod(ts.v, 1000)
                         ms == DivMod(us.q, 1000)
                         se == DivMod(ms.q, 1000)
                     IN [some |-> TRUE,
                         v |-> [secs |-> se.q,
                                nanos |-> se.r * 1000000 + ms.r * 1000 + us.r]]
                [] OTHER -> [some |-> FALSE]

\* dateparser::parse on the decimal string of an i64: only unix_timestamp
\* accepts a string made of digits, and no format accepts a leading "-"
parse(input) ==
    LET ts == unix_timestamp(input) IN
    IF ts.some THEN Ok(ts.v) ELSE Err(input)

\* a <= b on instants
InstantLeq(a, b) ==
    \/ LimbsLess(a.secs, b.secs)
    \/ a.secs = b.secs /\ a.nanos <= b.nanos

\* with_timezone(&Europe__Kiev) keeps the instant
Period_from_timestamp(start_time_i64, end_time_i64) ==
    LET start_str == i64_to_string(start_time_i64)
        end_str == i64_to_string(end_time_i64)
        start_time == parse(start_str)
        end_time == parse(end_str)
    IN IF start_time.k = "Err" THEN Err(InvalidTimestampProvided(start_str))
       ELSE IF end_time.k = "Err" THEN Err(InvalidTimestampProvided(end_str))
       ELSE Ok([start_time |-> start_time.v, end_time |-> end_time.v])

(***************************************************************************)
(* Date strings and the calendar boundaries of Period.  A clock reading is *)
(* an instant.  The date strings are over the digits, "-" and the letters  *)
(* of the needles; the process's local zone is UTC.  Europe/Kiev follows   *)
(* the European summer-time rule.  The date parser, the week boundaries    *)
(* and the time zone are collaborators of the program.                     *)
(***************************************************************************)
\* a + b on i64, wrapping
wrapping_add(a, b) ==
    LET n1 == a[1] + b[1]
        n2 == a[2] + b[2] + (n1 \div Limb)
        n3 == a[3] + b[3] + (n2 \div Limb)
        n4 == a[4] + b[4] + (n3 \div Limb)
    IN <<n1 % Limb, n2 % Limb, n3 % Limb, n4 % Limb>>

SecondsPerDay == 240 * 360

SecondsPerWeek == 7 * SecondsPerDay

\* days * 86400 on i64
days_to_seconds(days) == MulAdd(MulAdd(days, 240, 0).v, 360, 0).v

\* the seconds of an instant of non-negative secs since the last multiple of
\* 86400: NaiveTime of a UTC date-time, without the fraction
time_of_day(secs) ==
    LET minutes4 == DivMod(secs, 240)
        days == DivMod(minutes4.q, 360)
    IN days.r * 240 + minutes4.r

is_leap_year(year) == year % 4 = 0 /\ (year % 100 # 0 \/ year % 400 = 0)

days_in_month(year, month) ==
    CASE month \in {1, 3, 5, 7, 8, 10, 12} -> 31
      [] month \in {4, 6, 9, 11} -> 30
      [] OTHER -> IF is_leap_year(year) THEN 29 ELSE 28

\* days from 1970-01-01 to the proleptic Gregorian date year-month-day
days_from_epoch(year, month, day) ==
    LET y == IF month <= 2 THEN year - 1 ELSE year
        era == y \div 400
        yoe == y - era * 400
        mp == IF month > 2 THEN month - 3 ELSE month + 9
        doy == (153 * mp + 2) \div 5 + day - 1
        doe == yoe * 365 + yoe \div 4 - yoe \div 100 + doy
    IN era * 146097 + doe - 719468

\* the number written by the digits s[from..to]
RECURSIVE Digits(_, _, _)
Digits(s, from, to) ==
    IF from > to THEN 0
    ELSE Digits(s, from, to - 1) * 10 + DigitValue(s[to])

\* dateparser's ymd: ^[0-9]{4}-[0-9]{2}-[0-9]{2}$ read as %Y-%m-%d, a date
\* of the calendar, at the time of day of the clock reading default_time
ymd(input, default_time) ==
    IF ~(/\ Len(input) = 10
         /\ input[5] = "-" /\ input[8] = "-"
         /\ \A i \in {1, 2, 3, 4, 6, 7, 9, 10} : IsDigit(input[i]))
    THEN [some |-> FALSE]
    ELSE LET year == Digits(input, 1, 4)
             month == Digits(input, 6, 7)
             day == Digits(input, 9, 10)
         IN IF ~(month \in 1..12 /\ day \in 1..days_in_month(year, month))
            THEN [some |-> FALSE]
            ELSE [some |-> TRUE,
                  v |-> [secs |-> wrapping_add(
                                    days_to_seconds(FromInt(days_from_epoch(year, month, day))),
                                    FromInt(time_of_day(default_time.secs))),
                         nanos |-> default_time.nanos]]

\* dateparser::parse on a date string, reading the clock as now: ymd, or
\* parse of a string of digits
parse_string(input, now) ==
    LET date == ymd(input, now) IN
    IF date.some THEN Ok(date.v) ELSE parse(input)

\* the two parse calls read the clock one after the other
Period_from_string_end_first(start_time_str, end_time_str, now_start, now_end) ==
    LET start_time == parse_string(start_time_str, now_start)
        end_time == parse_string(end_time_str, now_end)
    IN IF end_time.k = "Err" THEN Err(InvalidStringProvided(end_time_str))
       ELSE IF start_time.k = "Err" THEN Err(InvalidStringProvided(start_time_str))
       ELSE Ok([start_time |-> start_time.v, end_time |-> end_time.v])

Period_from_string(start_time_str, end_time_str, now_start, now_end) ==
    LET start_time == parse_string(start_time_str, now_start)
        end_time == parse_string(end_time_str, now_end)
    IN IF start_time.k = "Err" THEN Err(InvalidStringProvided(start_time_str))
       ELSE IF end_time.k = "Err" THEN Err(InvalidStringProvided(end_time_str))
       ELSE Ok([start_time |-> start_time.v, end_time |-> end_time.v])

\* an i64 of 0 .. 2^31 - 1 as an integer
to_int(l) == l[2] * Limb + l[1]

\* the days from 1970-01-01 to the UTC day of an instant of non-negative secs
days_of(secs) == to_int(DivMod(DivMod(secs, 240).q, 360).q)

\* the year of the proleptic Gregorian date that is `days` after 1970-01-01
year_of(days) ==
    LET z == days + 719468
        era == z \div 146097
        doe == z - era * 146097
        yoe == (doe - doe \div 1460 + doe \div 36524 - doe \div 146096) \div 365
        doy == doe - (365 * yoe + yoe \div 4 - yoe \div 100)
        mp == (5 * doy + 2) \div 153
        month == IF mp < 10 THEN mp + 3 ELSE mp - 9
    IN yoe + era * 400 + (IF month <= 2 THEN 1 ELSE 0)

\* Weekday::num_days_from_monday of a day; 1970-01-01 was a Thursday
num_days_from_monday(days) == (days + 3) % 7

\* the last Sunday of a month, in days from 1970-01-01
last_sunday(year, month) ==
    LET last == days_from_epoch(year, month, days_in_month(year, month)) IN
    last - ((num_days_from_monday(last) + 1) % 7)

\* Europe/Kiev is at UTC+3 from 01:00 UTC of the last Sunday of March to
\* 01:00 UTC of the last Sunday of October, and at UTC+2 otherwise
is_summer_time(secs) ==
    LET days == days_of(secs)
        time == time_of_day(secs)
        year == year_of(days)
        from == last_sunday(year, 3)
        until == last_sunday(year, 10)
    IN /\ days > from \/ (days = from /\ time >= 3600)
       /\ days < until \/ (days = until /\ time < 3600)

\* the offset of Europe__Kiev from UTC at an instant, in seconds
kiev_offset(secs) == IF is_summer_time(secs) THEN 3 * 3600 ELSE 2 * 3600

\* DateTime<Tz>::naive_local: the Kiev calendar day and time of day of an instant
naive_local(secs) ==
    LET local == wrapping_add(secs, FromInt(kiev_offset(secs))) IN
    [days |-> days_of(local), time |-> time_of_day(local)]

\* TimeZone::from_local_datetime for a Kiev day and time of day outside the
\* hours in which the offset changes: the seconds of the instant
from_local_datetime(days, time) ==
    LET naive == wrapping_add(days_to_seconds(FromInt(days)), FromInt(time))
        standard == wrapping_add(naive, FromInt(-(2 * 3600)))
    IN IF ~is_summer_time(standard) THEN standard
       ELSE wrapping_add(naive, FromInt(-(3 * 3600)))

\* DateTimeNow::beginning_of_week: 00:00:00 of the Monday of the Kiev week
beginning_of_week(date) ==
    LET local == naive_local(date.secs)
        monday == local.days - num_days_from_monday(local.days)
    IN [secs |-> from_local_datetime(monday, 0), nanos |-> 0]

\* DateTimeNow::end_of_week: the last nanosecond of the Sunday of the Kiev week
end_of_week(date) ==
    LET local == naive_local(date.secs)
        monday == local.days - num_days_from_monday(local.days)
    IN [secs |-> from_local_datetime(monday + 6, SecondsPerDay - 1),
        nanos |-> 999999999]

\* date + Duration::days(n)
add_days(date, n) ==
    [secs |-> wrapping_add(date.secs, FromInt(n * SecondsPerDay)), nanos |-> date.nanos]

\* Period of the week of the day after the clock reading
Period_this_week_of_next_day(now) ==
    LET today_date == add_days(now, 1) IN
    [start_time |-> beginning_of_week(today_date),
     end_time |-> end_of_week(today_date)]

\* Period::this_week on the clock reading now
Period_this_week(now) ==
    LET today_date == now IN
    [start_time |-> beginning_of_week(today_date),
     end_time |-> end_of_week(today_date)]

(***************************************************************************)
(* The schedule: Subject and Lecture decoding.                             *)
(***************************************************************************)
Subject_new(brief, id, title) == [brief |-> brief, id |-> id, title |-> title]

\* #[derive(Default)] on Subject
Subject_default == Subject_new(<<>>, 0, <<>>)

\* the three obj.get(key).unwrap() of parse_subject_json
parse_subject_panics(obj) ==
    ~Has(obj, "brief") \/ ~Has(obj, "id") \/ ~Has(obj, "title")

\* parse_subject_json on an object that has the three keys
parse_subject_json(obj) ==
    Subject_new(IF obj["brief"].t = "str" THEN obj["brief"].s ELSE <<>>,
                IF obj["id"].t = "num" THEN number_to_id(obj["id"]) ELSE 0,
                IF obj["title"].t = "str" THEN obj["title"].s ELSE <<>>)

Lecture_new(lecture_room, period, number_pair, lecture_type, teachers, groups, subject) ==
    [lecture_room |-> lecture_room, period |-> period, number_pair |-> number_pair,
     lecture_type |-> lecture_type, teachers |-> teachers, groups |-> groups,
     subject |-> subject]

\* `if let Value::Number(n) = obj.get(key).unwrap() { .. n.as_i64().unwrap() .. }`
\* panics on a number that is no i64
number_unwrap_panics(obj, key) == obj[key].t = "num" /\ ~as_i64(obj[key]).some

\* the unwrap() calls of one iteration of the loop of get_schedule: a key that
\* is absent, a number that is no i64, and those of parse_subject_json
lecture_panics(obj) ==
    \/ ~Has(obj, "auditory")
    \/ ~Has(obj, "startTime")
    \/ ~Has(obj, "endTime")
    \/ ~Has(obj, "numberPair")
    \/ ~Has(obj, "type")
    \/ ~Has(obj, "teachers")
    \/ ~Has(obj, "groups")
    \/ ~Has(obj, "subject")
    \/ number_unwrap_panics(obj, "startTime")
    \/ number_unwrap_panics(obj, "endTime")
    \/ number_unwrap_panics(obj, "numberPair")
    \/ obj["subject"].t = "obj" /\ parse_subject_panics(obj["subject"].o)

\* the locals of get_schedule before the loop
lecture_locals_init ==
    [lecture_room |-> <<>>, start_time |-> ZeroLimbs, end_time |-> ZeroLimbs,
     number_pair |-> 0, lecture_type |-> <<>>, teachers |-> <<>>, groups |-> <<>>,
     subject |-> Subject_default]

\* the locals after the eight `if let` of one iteration that does not panic
lecture_locals_next(obj, st) ==
    [lecture_room |-> IF obj["auditory"].t = "str" THEN obj["auditory"].s
                      ELSE st.lecture_room,
     start_time |-> IF obj["startTime"].t = "num" THEN as_i64(obj["startTime"]).v
                    ELSE st.start_time,
     end_time |-> IF obj["endTime"].t = "num" THEN as_i64(obj["endTime"]).v
                  ELSE st.end_time,
     number_pair |-> IF obj["numberPair"].t = "num"
                     THEN cast_u8(as_i64(obj["numberPair"]).v)
                     ELSE st.number_pair,
     lecture_type |-> IF obj["type"].t = "str" THEN obj["type"].s
                      ELSE st.lecture_type,
     teachers |-> IF obj["teachers"].t = "arr" THEN parse_teacher_json(obj["teachers"].a)
                  ELSE st.teachers,
     groups |-> IF obj["groups"].t = "arr" THEN parse_group_json(obj["groups"].a)
                ELSE st.groups,
     subject |-> IF obj["subject"].t = "obj" THEN parse_subject_json(obj["subject"].o)
                 ELSE st.subject]

RECURSIVE get_schedule_loop(_, _, _)
get_schedule_loop(vector, st, acc) ==
    IF vector = <<>> THEN Ok(acc)
    ELSE LET element == Head(vector) IN
         IF element.t # "obj" THEN get_schedule_loop(Tail(vector), st, acc)
         ELSE IF lecture_panics(element.o) THEN Panic
         ELSE LET st2 == lecture_locals_next(element.o, st)
                  period == Period_from_timestamp(st2.start_time, st2.end_time)
              IN IF period.k = "Err" THEN period
                 ELSE get_schedule_loop(Tail(vector), st2,
                        Append(acc, Lecture_new(st2.lecture_room, period.v,
                                                st2.number_pair, st2.lecture_type,
                                                st2.teachers, st2.groups, st2.subject)))

\* get_schedule returning the empty result for a top-level value that is no array
get_schedule_lenient(get_response) ==
    LET response == get_wrapper(get_response) IN
    IF response.k # "Ok" THEN response
    ELSE IF response.v.t = "arr"
         THEN get_schedule_loop(response.v.a, lecture_locals_init, <<>>)
         ELSE Ok(<<>>)

get_schedule(get_response) ==
    LET response == get_wrapper(get_response) IN
    IF response.k # "Ok" THEN response
    ELSE IF response.v.t = "arr"
         THEN get_schedule_loop(response.v.a, lecture_locals_init, <<>>)
         ELSE Err(InvalidReturn)

(***************************************************************************)
(* The inputs of the model: search terms and HTTP outcomes.                *)
(***************************************************************************)
\* all sequences over S of length at most n
SeqsUpTo(S, n) == UNION {[1..k -> S] : k \in 0..n}

\* search terms: matching, upper-case, with a wildcard, matching nothing,
\* two that do not compile (an unclosed group), and a short name
Needles ==
    {<<"a">>, <<"B">>, <<"a", ".">>, <<"B", "A">>, <<"(">>, <<"A", "(">>, <<"A", "b">>}

\* 2^31, 2^32 + 7, 2^63 and -(2^31) - 1
TwoTo31 == <<0, HalfLimb, 0, 0>>

TwoTo32Plus7 == <<7, 0, 1, 0>>

TwoTo63 == <<0, 0, 0, HalfLimb>>

BelowI32 == <<Limb - 1, HalfLimb - 1, Limb - 1, Limb - 1>>

\* elements of a /lists/groups or /auditories response
GroupElems ==
    { JObj([id |-> JInt(7), name |-> JStr(<<"a", "b">>)]),
      JObj([id |-> JInt(-1), name |-> JStr(<<"A">>)]),
      JObj([id |-> JPos(TwoTo31), name |-> JStr(<<"B">>)]),
      JObj([id |-> JPos(TwoTo32Plus7), name |-> JStr(<<"b", "a", "b">>)]),
      JObj([name |-> JStr(<<"a">>)]),
      JObj([id |-> JStr(<<"7">>), name |-> JInt(5)]),
      JObj([id |-> JFloat]),
      JNull }

\* elements of a /teachers response
TeacherElems ==
    { JObj([id |-> JInt(7), shortName |-> JStr(<<"a">>), fullName |-> JStr(<<"a", "b">>)]),
      JObj([id |-> JNeg(BelowI32), shortName |-> JStr(<<"B">>), fullName |-> JStr(<<"B">>)]),
      JObj([id |-> JPos(TwoTo63), shortName |-> JStr(<<"A", "b">>), fullName |-> JStr(<<"a">>)]),
      JObj([shortName |-> JStr(<<"b">>)]),
      JObj([id |-> JInt(8), fullName |-> JStr(<<"A">>)]),
      JObj([id |-> JStr(<<"7">>), shortName |-> JInt(1), fullName |-> JNull]),
      JInt(7) }

\* an object without one key, and with one key replaced
Drop(obj, key) == [x \in (DOMAIN obj) \ {key} |-> obj[x]]

With(obj, key, v) == [x \in DOMAIN obj |-> IF x = key THEN v ELSE obj[x]]

LectureKeys ==
    {"auditory", "startTime", "endTime", "numberPair", "type", "teachers", "groups",
     "subject"}

SubjectKeys == {"brief", "id", "title"}

\* a value of a JSON type the decoder does not expect under the key
Mistyped(key) ==
    CASE key \in {"auditory", "type", "brief", "title"} -> JInt(5)
      [] key \in {"startTime", "endTime", "numberPair", "id"} -> JStr(<<"1">>)
      [] OTHER -> JNull

BaseSubject == [brief |-> JStr(<<"a">>), id |-> JInt(7), title |-> JStr(<<"a", "b">>)]

\* a well-formed lecture: 2024-01-01T22:00:00Z to 2024-01-02T22:00:00Z
BaseLecture ==
    [auditory |-> JStr(<<"a">>), startTime |-> JInt(1704146400),
     endTime |-> JInt(1704232800), numberPair |-> JInt(1), type |-> JStr(<<"b">>),
     teachers |-> JArr(<<JObj([id |-> JInt(7), shortName |-> JStr(<<"a">>),
                              fullName |-> JStr(<<"a", "b">>)])>>),
     groups |-> JArr(<<JObj([id |-> JInt(7), name |-> JStr(<<"a", "b">>)])>>),
     subject |-> JObj(BaseSubject)]

\* a second well-formed lecture, every field different
OtherLecture ==
    [auditory |-> JStr(<<"B">>), startTime |-> JInt(1704232800),
     endTime |-> JInt(1704319200), numberPair |-> JInt(2), type |-> JStr(<<"A">>),
     teachers |-> JArr(<<>>),
     groups |-> JArr(<<JObj([id |-> JInt(8), name |-> JStr(<<"B">>)])>>),
     subject |-> JObj([brief |-> JStr(<<"B">>), id |-> JInt(8), title |-> JStr(<<"B">>)])]

\* BaseLecture with one key absent or of another JSON type, at the top level
\* or inside subject
SingleFaultLectures ==
    {Drop(BaseLecture, key) : key \in LectureKeys}
    \cup {With(BaseLecture, key, Mistyped(key)) : key \in LectureKeys}
    \cup {With(BaseLecture, "subject", JObj(Drop(BaseSubject, key))) : key \in SubjectKeys}
    \cup {With(BaseLecture, "subject", JObj(With(BaseSubject, key, Mistyped(key)))) :
            key \in SubjectKeys}

\* lectures with numbers at the edges: startTime after endTime, a pair number
\* outside 0..255, timestamps of 1, 13 and 11 digits, a negative one, and numbers
\* that are no i64
EdgeLectures ==
    { With(BaseLecture, "startTime", JInt(1704319200)),
      With(BaseLecture, "numberPair", JInt(256)),
      With(BaseLecture, "numberPair", JInt(-1)),
      With(BaseLecture, "startTime", JInt(5)),
      With(BaseLecture, "endTime", JInt(-1704232800)),
      With(BaseLecture, "endTime", JPos(MulAdd(FromInt(1704232800), 1000, 0).v)),
      With(BaseLecture, "endTime", JPos(MulAdd(FromInt(1704232800), 10, 0).v)),
      With(BaseLecture, "startTime", JFloat),
      With(BaseLecture, "numberPair", JPos(TwoTo63)) }

\* elements of a /schedule response
LectureElems ==
    {JObj(BaseLecture), JObj(OtherLecture), JNull}
    \cup {JObj(o) : o \in SingleFaultLectures \cup EdgeLectures}

\* decoded bodies whose top level is no array
NonArrays ==
    { JNull, JBool(TRUE), JInt(7), JStr(<<"a">>),
      JObj([id |-> JInt(7), name |-> JStr(<<"a">>)]) }

Statuses == {200, 201, 204, 299, 404, 500}

\* the outcomes of one GET whose 200 body, when an array, is one of `arrays`
Outcomes(arrays) ==
    {TransportError}
    \cup {Response(status, body) :
            status \in Statuses \ {200},
            body \in {NotJsonBody, JsonBody(JNull), JsonBody(JArr(<<>>))}}
    \cup {Response(200, NotJsonBody)}
    \cup {Response(200, JsonBody(v)) : v \in NonArrays}
    \cup {Response(200, JsonBody(JArr(a))) : a \in arrays}

GroupOutcomes == Outcomes(SeqsUpTo(GroupElems, MaxRecords))

TeacherOutcomes == Outcomes(SeqsUpTo(TeacherElems, MaxRecords))

LectureOutcomes == Outcomes(SeqsUpTo(LectureElems, MaxLectures))

\* arguments of Period::from_string: two dates, a date that is not of the
\* calendar, a 10-digit timestamp, and strings that are no date
DateStrings ==
    { <<"2", "0", "2", "4", "-", "0", "1", "-", "0", "2">>,
      <<"2", "0", "2", "4", "-", "0", "1", "-", "0", "3">>,
      <<"2", "0", "2", "4", "-", "1", "3", "-", "0", "1">>,
      <<"1", "7", "0", "4", "1", "4", "6", "4", "0", "0">>,
      <<"a", "b">>,
      <<"-", "1">>,
      <<>> }

\* arguments of Period::from_timestamp: seconds, milliseconds, and integers
\* that are no timestamp
Timestamps ==
    { FromInt(1704146400), FromInt(1704232800),
      MulAdd(FromInt(1704232800), 1000, 0).v,
      FromInt(5), ZeroLimbs, FromInt(-1), TwoTo63 }

\* readings of Utc::now().  In winter: Monday 00:00:00 of a Kiev week, a
\* Thursday, the last nanosecond of the Sunday, and half an hour into the
\* next Monday in Kiev, still Sunday in UTC.  In summer: a Wednesday, and a
\* Sunday evening that is Monday in Kiev.  In the week in which summer time
\* begins: its first instant, the last second before the change, the change,
\* and its last nanosecond.  In the week in which it ends: its first instant,
\* the last second before the change, the change, the last hour of the
\* Sunday, and its last nanosecond.
Clock ==
    { [secs |-> FromInt(1704060000), nanos |-> 0],
      [secs |-> FromInt(1704369600), nanos |-> 500],
      [secs |-> FromInt(1704664799), nanos |-> 999999999],
      [secs |-> FromInt(1704666600), nanos |-> 0],
      [secs |-> FromInt(1720612800), nanos |-> 0],
      [secs |-> FromInt(1720992600), nanos |-> 7],
      [secs |-> FromInt(1711317600), nanos |-> 0],
      [secs |-> FromInt(1711846799), nanos |-> 999999999],
      [secs |-> FromInt(1711846800), nanos |-> 0],
      [secs |-> FromInt(1711918799), nanos |-> 999999999],
      [secs |-> FromInt(1729458000), nanos |-> 0],
      [secs |-> FromInt(1729990799), nanos |-> 0],
      [secs |-> FromInt(1729990800), nanos |-> 0],
      [secs |-> FromInt(1730064600), nanos |-> 0],
      [secs |-> FromInt(1730066399), nanos |-> 999999999] }

\* two readings, the second not before the first
ClockPairs == {readings \in Clock \X Clock : InstantLeq(readings[1], readings[2])}

(***************************************************************************)
(* The state machine.  A call of a query operation enters the operation    *)
(* (Call_..), evaluates its get(..) expression (Get), blocks until the     *)
(* HTTP outcome is there and passes it through get_wrapper (Respond); the  *)
(* `?` after get_wrapper either returns the failure (Propagate) or lets    *)
(* the operation go on to decode and return (Complete).  pc is the         *)
(* position of the running call, running its name and arg its argument;    *)
(* requests counts the GETs the call has sent, http and envelope are the   *)
(* outcome it received; op and result are set when the call returns, and   *)
(* clock holds the readings of the system clock that entered the result.   *)
(* A Period constructor sends nothing and returns in one step.  Nothing    *)
(* outlives a call: Proceed is the caller going on, after which the next   *)
(* call starts from the state after construction.                          *)
(***************************************************************************)
Init ==
    /\ pc = "idle"
    /\ running = "none"
    /\ op = "none"
    /\ arg = <<>>
    /\ http = [t |-> "None"]
    /\ envelope = [k |-> "None"]
    /\ result = [k |-> "None"]
    /\ requests = 0
    /\ clock = <<>>

\* the caller enters the query operation `name` with argument a
Enters(name, a) ==
    /\ running' = name
    /\ arg' = a
    /\ pc' = "get"
    /\ UNCHANGED <<op, http, envelope, result, requests, clock>>

Call_get_groups ==
    /\ pc = "idle"
    /\ Enters("get_groups", <<>>)

Call_get_teachers ==
    /\ pc = "idle"
    /\ Enters("get_teachers", <<>>)

Call_get_lecture_rooms ==
    /\ pc = "idle"
    /\ Enters("get_lecture_rooms", <<>>)

Call_get_schedule ==
    /\ pc = "idle"
    /\ Enters("get_schedule", <<>>)

Call_find_group ==
    /\ pc = "idle"
    /\ \E name \in Needles : Enters("find_group", name)

Call_find_teacher ==
    /\ pc = "idle"
    /\ \E name \in Needles : Enters("find_teacher", name)

Call_find_lecture_room ==
    /\ pc = "idle"
    /\ \E name \in Needles : Enters("find_lecture_room", name)

Call_find_exect_group ==
    /\ pc = "idle"
    /\ \E name \in Needles : Enters("find_exect_group", name)

Call_find_exect_teacher ==
    /\ pc = "idle"
    /\ \E name \in Needles : Enters("find_exect_teacher", name)

Call_find_exect_lecture_room ==
    /\ pc = "idle"
    /\ \E name \in Needles : Enters("find_exect_lecture_room", name)

\* reqwest::blocking::get(url): the request is sent and the call blocks
Get ==
    /\ pc = "get"
    /\ requests < MaxRequests
    /\ requests' = requests + 1
    /\ pc' = "blocked"
    /\ UNCHANGED <<running, op, arg, http, envelope, result, clock>>

\* the HTTP outcomes the endpoint of an operation can produce
ResponsesTo(name) ==
    CASE name \in {"get_teachers", "find_teacher", "find_exect_teacher"} -> TeacherOutcomes
      [] name = "get_schedule" -> LectureOutcomes
      [] OTHER -> GroupOutcomes

\* the `?` after get_wrapper(..), with a client that sends the request again
\* after a failure
question_mark_retry(response) ==
    IF response.k = "Err" THEN "get" ELSE "continue"

\* the `?` after get_wrapper(..): an Err returns from the function, an Ok
\* value lets it continue
question_mark(response) ==
    IF response.k = "Err" THEN "return" ELSE "continue"

\* the outcome of the GET arrives and get_wrapper classifies it
Respond ==
    /\ pc = "blocked"
    /\ \E get_response \in ResponsesTo(running) :
         /\ http' = get_response
         /\ envelope' = get_wrapper(get_response)
         /\ pc' = question_mark(get_wrapper(get_response))
    /\ UNCHANGED <<running, op, arg, result, requests, clock>>

\* the failure of get_wrapper is returned, through the `?` of the find and
\* find_exect variants too
Propagate ==
    /\ pc = "return"
    /\ op' = running
    /\ result' = envelope
    /\ pc' = "returned"
    /\ UNCHANGED <<running, arg, http, envelope, requests, clock>>

\* what the operation `name` returns for argument a on the outcome
\* get_response
Returned(name, a, get_response) ==
    CASE name = "get_groups" -> get_groups(get_response)
      [] name = "get_teachers" -> get_teachers(get_response)
      [] name = "get_lecture_rooms" -> get_lecture_rooms(get_response)
      [] name = "get_schedule" -> get_schedule(get_response)
      [] name = "find_group" -> find_group(a, get_response)
      [] name = "find_teacher" -> find_teacher(a, get_response)
      [] name = "find_lecture_room" -> find_lecture_room(a, get_response)
      [] name = "find_exect_group" -> find_exect_group(a, get_response)
      [] name = "find_exect_teacher" -> find_exect_teacher(a, get_response)
      [] name = "find_exect_lecture_room" -> find_exect_lecture_room(a, get_response)

\* the operation decodes the value, filters it and returns
Complete ==
    /\ pc = "continue"
    /\ op' = running
    /\ result' = Returned(running, arg, http)
    /\ pc' = "returned"
    /\ UNCHANGED <<running, arg, http, envelope, requests, clock>>

\* a call of the Period constructor `name` with arguments a that reads the
\* clock as readings and returns res; it sends no request
Constructs(name, a, readings, res) ==
    /\ running' = name
    /\ pc' = "returned"
    /\ op' = name
    /\ arg' = a
    /\ result' = res
    /\ clock' = readings
    /\ UNCHANGED <<http, envelope, requests>>

Call_from_string ==
    /\ pc = "idle"
    /\ \E start_time_str \in DateStrings, end_time_str \in DateStrings,
          readings \in ClockPairs :
         Constructs("from_string", <<start_time_str, end_time_str>>, readings,
                    Period_from_string(start_time_str, end_time_str,
                                       readings[1], readings[2]))

Call_from_timestamp ==
    /\ pc = "idle"
    /\ \E start_time_i64 \in Timestamps, end_time_i64 \in Timestamps :
         Constructs("from_timestamp", <<start_time_i64, end_time_i64>>, <<>>,
                    Period_from_timestamp(start_time_i64, end_time_i64))

\* this_week returns a Period, not a Result
Call_this_week ==
    /\ pc = "idle"
    /\ \E now \in Clock :
         Constructs("this_week", <<>>, <<now>>, Ok(Period_this_week(now)))

Proceed ==
    /\ pc = "returned"
    /\ pc' = "idle"
    /\ running' = "none"
    /\ op' = "none"
    /\ arg' = <<>>
    /\ http' = [t |-> "None"]
    /\ envelope' = [k |-> "None"]
    /\ result' = [k |-> "None"]
    /\ requests' = 0
    /\ clock' = <<>>

Next ==
    \/ Call_get_groups
    \/ Call_get_teachers
    \/ Call_get_lecture_rooms
    \/ Call_get_schedule
    \/ Call_find_group
    \/ Call_find_teacher
    \/ Call_find_lecture_room
    \/ Call_find_exect_group
    \/ Call_find_exect_teacher
    \/ Call_find_exect_lecture_room
    \/ Get
    \/ Respond
    \/ Propagate
    \/ Complete
    \/ Call_from_string
    \/ Call_from_timestamp
    \/ Call_this_week
    \/ Proceed

Spec == Init /\ [][Next]_vars

(***************************************************************************)
(* Vocabulary of the properties.                                           *)
(***************************************************************************)
GetOps == {"get_groups", "get_teachers", "get_lecture_rooms", "get_schedule"}

ListOps == {"get_groups", "get_teachers", "get_lecture_rooms"}

FindOps == {"find_group", "find_teacher", "find_lecture_room"}

Called == op # "none"

\* the envelope handler returned a decoded array
GotArray == envelope.k = "Ok" /\ envelope.v.t = "arr"

IsObject(element) == element.t = "obj"

\* the object elements of a decoded array, in input order
ObjectsOf(vector) == SelectSeq(vector, IsObject)

\* the JSON number n is the integer i: an integer literal whose 64 bits are those of i
NumberIs(n, i) ==
    /\ n.k = (IF i >= 0 THEN "PosInt" ELSE "NegInt")
    /\ n.l = FromInt(i)

\* C1: get_wrapper classifies every HTTP outcome into exactly one of four
\* results: a transport failure gives GetFailed; a response of any status
\* other than 200 (other 2xx codes included, whatever its body) gives
\* BadResponse with the canonical reason phrase and that status; a 200 whose
\* body does not parse gives NotJson; a 200 whose body parses gives the
\* decoded value.
C1_Classification ==
    Called =>
      /\ http.t = "TransportError" => envelope = Err(GetFailed)
      /\ http.t = "Response" /\ http.status # 200 =>
            /\ envelope = Err(BadResponse(canonical_reason(http.status), http.status))
            /\ http.status = 404 => envelope.e.reason = "Not Found"
            /\ http.status = 201 => envelope.e.reason = "Created"
      /\ http.t = "Response" /\ http.status = 200 /\ ~http.body.json =>
            envelope = Err(NotJson)
      /\ http.t = "Response" /\ http.status = 200 /\ http.body.json =>
            envelope = Ok(http.body.v)
      /\ envelope.k = "Err" => result = envelope

\* a 201 response with a JSON array body was classified
C1_Witness ==
    /\ op = "get_groups"
    /\ http.t = "Response" /\ http.status = 201
    /\ http.body.json /\ http.body.v.t = "arr"
    /\ result = Err(BadResponse("Created", 201))

\* C2: in get_groups, get_teachers, get_lecture_rooms and get_schedule, when
\* the envelope succeeds and the decoded top-level value is no array the call
\* fails with InvalidReturn (and so returns no records); when it is an array,
\* the empty one included, the call does not fail with InvalidReturn.
C2_InvalidReturn ==
    op \in GetOps /\ envelope.k = "Ok" =>
      /\ envelope.v.t # "arr" => result = Err(InvalidReturn)
      /\ envelope.v.t = "arr" => result # Err(InvalidReturn)

\* get_schedule received a JSON object at the top level
C2_Witness ==
    /\ op = "get_schedule"
    /\ envelope.k = "Ok" /\ envelope.v.t = "obj"
    /\ result = Err(InvalidReturn)

\* the k-th record carries the names of the k-th object, where it has them
DerivedFrom(record, obj) ==
    CASE op = "get_teachers" ->
           /\ HasString(obj, "shortName") => record.short_name = obj["shortName"].s
           /\ HasString(obj, "fullName") => record.full_name = obj["fullName"].s
      [] OTHER -> HasString(obj, "name") => record.name = obj["name"].s

\* C3: parse_group_json, parse_teacher_json and parse_lecture_room_json give
\* exactly one record per JSON-object element of the array, in input order:
\* as many records as object elements, the k-th record derived from the k-th
\* object element, and no record for an element that is no object.
C3_OneRecordPerObject ==
    op \in ListOps /\ GotArray =>
      LET objects == ObjectsOf(envelope.v.a) IN
      /\ result.k = "Ok"
      /\ Len(result.v) = Len(objects)
      /\ \A k \in 1..Len(objects) : DerivedFrom(result.v[k], objects[k].o)

\* an array of a non-object followed by an object with names was decoded
C3_Witness ==
    /\ op = "get_teachers" /\ GotArray
    /\ Len(envelope.v.a) = 2
    /\ ~IsObject(envelope.v.a[1]) /\ IsObject(envelope.v.a[2])
    /\ HasString(envelope.v.a[2].o, "fullName")
    /\ result.k = "Ok" /\ Len(result.v) = 1
    /\ result.v[1].full_name = envelope.v.a[2].o["fullName"].s

\* the JSON keys of the name fields of the records of the call, with the
\* record fields they are decoded into
NameFields ==
    IF op = "get_teachers"
    THEN {<<"shortName", "short_name">>, <<"fullName", "full_name">>}
    ELSE {<<"name", "name">>}

\* C4: in parse_group_json, parse_teacher_json and parse_lecture_room_json
\* each field of the k-th record is the value in the k-th object when that key
\* is present with the expected JSON type; otherwise the value the field had
\* in the closest preceding object element of the call; otherwise the type
\* default, 0 for id and the empty string for names.  Elements that are no
\* objects do not reset the carried values.
C4_FieldPolicy ==
    op \in ListOps /\ GotArray =>
      LET objects == ObjectsOf(envelope.v.a) IN
      /\ result.k = "Ok" /\ Len(result.v) = Len(objects)
      /\ \A k \in 1..Len(objects) :
           LET obj == objects[k].o
               record == result.v[k]
           IN /\ IF HasNumber(obj, "id") THEN NumberIs(obj["id"], record.id)
                 ELSE record.id = (IF k > 1 THEN result.v[k - 1].id ELSE 0)
              /\ \A f \in NameFields :
                   record[f[2]] = (IF HasString(obj, f[1]) THEN obj[f[1]].s
                                   ELSE IF k > 1 THEN result.v[k - 1][f[2]]
                                   ELSE <<>>)

\* C4, as the decoders compute it: the selection between the k-th object, the
\* preceding record and the default is as stated, and an id that is present as
\* a number is stored as `as_i64().unwrap_or(0) as i32` of it.
C4_SelectionWithNarrowing ==
    op \in ListOps /\ GotArray =>
      LET objects == ObjectsOf(envelope.v.a) IN
      /\ result.k = "Ok" /\ Len(result.v) = Len(objects)
      /\ \A k \in 1..Len(objects) :
           LET obj == objects[k].o
               record == result.v[k]
           IN /\ record.id = (IF HasNumber(obj, "id") THEN number_to_id(obj["id"])
                              ELSE IF k > 1 THEN result.v[k - 1].id
                              ELSE 0)
              /\ \A f \in NameFields :
                   record[f[2]] = (IF HasString(obj, f[1]) THEN obj[f[1]].s
                                   ELSE IF k > 1 THEN result.v[k - 1][f[2]]
                                   ELSE <<>>)

\* an object with an integer id and string names
WellFormed(element) ==
    /\ IsObject(element)
    /\ HasNumber(element.o, "id") /\ element.o["id"].k \in {"PosInt", "NegInt"}
    /\ \A f \in NameFields : HasString(element.o, f[1])

\* C5: for every array of well-formed group, teacher or room objects (an
\* integer id and string names), the id of each decoded record equals the
\* integer id of the payload and its names equal the payload strings, for
\* every integer the payload can carry, outside the signed 32-bit range too.
C5_IdAndNamesPreserved ==
    /\ op \in ListOps /\ GotArray
    /\ \A k \in 1..Len(envelope.v.a) : WellFormed(envelope.v.a[k])
    => /\ result.k = "Ok" /\ Len(result.v) = Len(envelope.v.a)
       /\ \A k \in 1..Len(envelope.v.a) :
            /\ NumberIs(envelope.v.a[k].o["id"], result.v[k].id)
            /\ \A f \in NameFields : result.v[k][f[2]] = envelope.v.a[k].o[f[1]].s

\* get_schedule decoded an array whose elements are all objects of the set
GotLectures(objects) ==
    /\ op = "get_schedule" /\ GotArray
    /\ \A k \in 1..Len(envelope.v.a) :
         IsObject(envelope.v.a[k]) /\ envelope.v.a[k].o \in objects

\* C6: the Lecture decoding of get_schedule does not fail outright (no error
\* returned because of it, no panic) when a single field of a lecture object
\* is absent or of the wrong JSON type: for every lecture object in which one
\* of auditory, startTime, endTime, numberPair, type, teachers, groups,
\* subject or a key inside subject is missing or mis-typed, a Lecture is still
\* produced for that element.
C6_NoOutrightFailure ==
    GotLectures({BaseLecture, OtherLecture} \cup SingleFaultLectures) =>
      /\ result.k = "Ok"
      /\ Len(result.v) = Len(envelope.v.a)

\* the subject key is absent, or its value is no JSON object
SubjectFaultLectures ==
    {Drop(BaseLecture, "subject"), With(BaseLecture, "subject", Mistyped("subject"))}

\* C7: in get_schedule a lecture object whose subject key is absent or whose
\* subject value is no JSON object yields a Lecture whose subject is the
\* Subject default (empty brief, id 0, empty title), whatever subject the
\* preceding lecture elements carried.
C7_SubjectDefault ==
    GotLectures({BaseLecture, OtherLecture} \cup SubjectFaultLectures) =>
      /\ result.k = "Ok"
      /\ Len(result.v) = Len(envelope.v.a)
      /\ \A k \in 1..Len(envelope.v.a) :
           envelope.v.a[k].o \in SubjectFaultLectures =>
             result.v[k].subject = Subject_default

\* C8: every Lecture returned by get_schedule carries a Period with
\* start_time <= end_time, for every response payload (startTime greater than
\* endTime, or one of the two missing or mis-typed and carried over).
C8_PeriodOrdered ==
    op = "get_schedule" /\ result.k = "Ok" =>
      \A k \in 1..Len(result.v) :
        InstantLeq(result.v[k].period.start_time, result.v[k].period.end_time)

\* the record list the find call fetched: what get_groups, get_teachers or
\* get_lecture_rooms returns on the call's HTTP outcome
Fetched ==
    CASE op = "find_group" -> get_groups(http)
      [] op = "find_teacher" -> get_teachers(http)
      [] op = "find_lecture_room" -> get_lecture_rooms(http)

\* the name a find call searches in
SearchedName(record) == IF op = "find_teacher" THEN record.full_name ELSE record.name

\* the resource-specific error of a find call
InvalidName(s) ==
    CASE op = "find_group" -> InvalidGroupName(s)
      [] op = "find_teacher" -> InvalidTeacherName(s)
      [] op = "find_lecture_room" -> InvalidLectureRoomName(s)

\* the lower-cased search term, as a regex, matches somewhere in the lower-cased name
MatchesNeedle(record) ==
    regex_find(to_lowercase(arg), to_lowercase(SearchedName(record)))

\* C9: for a name that is a valid regex, find_group, find_teacher and
\* find_lecture_room return exactly the subsequence, in response order, of the
\* decoded records whose name matches the needle under the name matcher, and
\* fail with InvalidGroupName, InvalidTeacherName or InvalidLectureRoomName
\* carrying the original input, not lower-cased, if and only if that
\* subsequence is empty; a successful result is never empty.
C9_FindSubsequence ==
    op \in FindOps /\ regex_compiles(to_lowercase(arg)) /\ Fetched.k = "Ok" =>
      LET matching == SelectSeq(Fetched.v, MatchesNeedle) IN
      /\ matching # <<>> => result = Ok(matching)
      /\ matching = <<>> => result = Err(InvalidName(arg))
      /\ result.k = "Ok" => result.v # <<>>

\* find_teacher kept the second of two records for the upper-case needle "B"
C9_Witness ==
    /\ op = "find_teacher" /\ arg = <<"B">> /\ Fetched.k = "Ok"
    /\ Len(Fetched.v) = 2
    /\ result.k = "Ok" /\ result.v = <<Fetched.v[2]>>

\* C10, as claimed: when the search term is no valid regular expression,
\* find_group, find_teacher and find_lecture_room fail with
\* InvalidRegexString carrying the original needle for every fetched record
\* list, the empty list included.
C10_RegexErrorAlways ==
    op \in FindOps /\ ~regex_compiles(to_lowercase(arg)) /\ Fetched.k = "Ok" =>
      result = Err(InvalidRegexString(arg))

\* C10, amended: when the search term is no valid regular expression, find
\* fails with InvalidRegexString carrying the original needle, and find_group,
\* find_teacher and find_lecture_room fail with it whenever the fetched record
\* list is not empty; on an empty record list find is never called and they
\* fail with InvalidGroupName, InvalidTeacherName or InvalidLectureRoomName
\* carrying the needle.
C10_RegexErrorPropagated ==
    op \in FindOps /\ ~regex_compiles(to_lowercase(arg)) /\ Fetched.k = "Ok" =>
      /\ \A k \in 1..Len(Fetched.v) :
           find(arg, SearchedName(Fetched.v[k])) = Err(InvalidRegexString(arg))
      /\ Fetched.v # <<>> => result = Err(InvalidRegexString(arg))
      /\ Fetched.v = <<>> => result = Err(InvalidName(arg))

\* find_lecture_room was called with "A(" on a response with records
C10_Witness ==
    /\ op = "find_lecture_room" /\ arg = <<"A", "(">>
    /\ Fetched.k = "Ok" /\ Len(Fetched.v) = 2
    /\ result = Err(InvalidRegexString(<<"A", "(">>))

ExactOps == {"find_exect_group", "find_exect_teacher", "find_exect_lecture_room"}

\* the record list a find_exect call fetched
FetchedForExact ==
    CASE op = "find_exect_group" -> get_groups(http)
      [] op = "find_exect_teacher" -> get_teachers(http)
      [] op = "find_exect_lecture_room" -> get_lecture_rooms(http)

\* the name a find_exect call compares with its input
ComparedName(record) ==
    IF op = "find_exect_teacher" THEN record.short_name ELSE record.name

\* full equality after lower-casing both sides
EqualsInput(record) == to_lowercase(arg) = to_lowercase(ComparedName(record))

\* the resource-specific error of a find_exect call, that of its find variant
InvalidExactName(s) ==
    CASE op = "find_exect_group" -> InvalidGroupName(s)
      [] op = "find_exect_teacher" -> InvalidTeacherName(s)
      [] op = "find_exect_lecture_room" -> InvalidLectureRoomName(s)

\* C11: when no decoded record's name equals the input case-insensitively,
\* find_exect_group fails with InvalidGroupName, find_exect_teacher with
\* InvalidTeacherName and find_exect_lecture_room with InvalidLectureRoomName,
\* the error kind of the corresponding find variant, carrying the input.
C11_ExactErrorKind ==
    /\ op \in ExactOps /\ FetchedForExact.k = "Ok"
    /\ \A k \in 1..Len(FetchedForExact.v) : ~EqualsInput(FetchedForExact.v[k])
    => result = Err(InvalidExactName(arg))

\* C11, as the code computes it: the error carries the input, and its kind is
\* that of the find variant for groups and teachers; find_exect_lecture_room
\* constructs InvalidGroupName.
C11_ExactErrorAsCoded ==
    /\ op \in ExactOps /\ FetchedForExact.k = "Ok"
    /\ \A k \in 1..Len(FetchedForExact.v) : ~EqualsInput(FetchedForExact.v[k])
    => result = Err(IF op = "find_exect_lecture_room" THEN InvalidGroupName(arg)
                    ELSE InvalidExactName(arg))

QueryOps == GetOps \cup FindOps \cup ExactOps

\* C12: every public query operation issues exactly one HTTP GET per call and
\* never a second one: a call that has returned has sent one request, a
\* request is sent only while none has been sent, once the outcome is there
\* no step sends another, and after a GetFailed, BadResponse, NotJson or
\* InvalidReturn outcome that failure is the final result of the operation.
C12_OneGetPerCall ==
    /\ [](requests <= 1)
    /\ [](op \in QueryOps => requests = 1)
    /\ [][requests' > requests => requests = 0 /\ envelope.k = "None"]_vars
    /\ [][envelope.k # "None" => requests' <= requests]_vars
    /\ [][envelope.k = "Err" /\ pc # "returned" =>
            pc' = "returned" /\ op' = running /\ result' = envelope]_vars
    /\ [](op \in QueryOps /\ envelope.k = "Err" =>
            /\ envelope.e.kind \in {"GetFailed", "BadResponse", "NotJson"}
            /\ result = envelope)
    /\ [](op \in QueryOps /\ envelope.k = "Ok" /\ envelope.v.t # "arr" =>
            result = Err(InvalidReturn))
    /\ [][pc = "returned" => pc' = "idle" /\ requests' = 0]_vars

\* find_exect_teacher met a transport failure and returned it after one GET
C12_Witness ==
    /\ pc = "returned"
    /\ op = "find_exect_teacher" /\ http.t = "TransportError"
    /\ requests = 1 /\ result = Err(GetFailed)

\* the side of a Period constructor's input parses as a date
StartParses ==
    CASE op = "from_string" -> parse_string(arg[1], clock[1]).k = "Ok"
      [] op = "from_timestamp" -> parse(i64_to_string(arg[1])).k = "Ok"

EndParses ==
    CASE op = "from_string" -> parse_string(arg[2], clock[2]).k = "Ok"
      [] op = "from_timestamp" -> parse(i64_to_string(arg[2])).k = "Ok"

\* the error of a Period constructor for the offending input of side i:
\* the string itself, or the decimal string of the integer
OffendingInput(i) ==
    CASE op = "from_string" -> InvalidStringProvided(arg[i])
      [] op = "from_timestamp" -> InvalidTimestampProvided(i64_to_string(arg[i]))

\* C13: Period::from_string and Period::from_timestamp fail per side with the
\* offending input: if the start fails to parse the error carries the start
\* input, also when the end is unparseable too; if the start parses and the
\* end does not, it carries the end input; from_string fails with
\* InvalidStringProvided of the string, from_timestamp with
\* InvalidTimestampProvided of the decimal string of the integer; a Period is
\* returned only when both sides parse.
C13_ErrorPerSide ==
    op \in {"from_string", "from_timestamp"} =>
      /\ ~StartParses => result = Err(OffendingInput(1))
      /\ StartParses /\ ~EndParses => result = Err(OffendingInput(2))
      /\ result.k = "Ok" <=> StartParses /\ EndParses
      /\ op = "from_timestamp" /\ arg[1] = FromInt(-1) =>
           result = Err(InvalidTimestampProvided(<<"-", "1">>))
      /\ op = "from_timestamp" /\ arg = <<FromInt(1704146400), FromInt(5)>> =>
           result = Err(InvalidTimestampProvided(<<"5">>))

\* from_string was given two strings that are no dates and failed with the first
C13_Witness ==
    /\ op = "from_string" /\ arg = <<<<"a", "b">>, <<"-", "1">>>>
    /\ result = Err(InvalidStringProvided(<<"a", "b">>))

RegexFree(name) == \A i \in 1..Len(name) : name[i] \notin {".", "("}

\* what the find variant of a find_exect call returns for the same name on
\* the same response
FoundByFind ==
    CASE op = "find_exect_group" -> find_group(arg, http)
      [] op = "find_exect_teacher" -> find_teacher(arg, http)
      [] op = "find_exect_lecture_room" -> find_lecture_room(arg, http)

InFoundByFind(record) ==
    /\ FoundByFind.k = "Ok"
    /\ \E k \in 1..Len(FoundByFind.v) : FoundByFind.v[k] = record

\* C15, as claimed: find_exect_group, find_exect_teacher and
\* find_exect_lecture_room return the first record in response order whose
\* name equals the input after lower-casing both, and compare the name field
\* their find variant searches, so that for a regex-free name the record
\* returned by find_exect_X is in the result of find_X on the same response.
C15_ExactSameField ==
    op \in ExactOps /\ FetchedForExact.k = "Ok" =>
      LET equal == SelectSeq(FetchedForExact.v, EqualsInput) IN
      /\ equal # <<>> => result = Ok(equal[1])
      /\ RegexFree(arg) /\ result.k = "Ok" => InFoundByFind(result.v)

\* C15, amended: find_exect_group, find_exect_teacher and
\* find_exect_lecture_room return the first record in response order whose
\* compared name equals the input after lower-casing both, and fail when there
\* is none; groups and rooms compare name, the field find_group and
\* find_lecture_room search, so that for a regex-free name the returned record
\* is in the result of the find variant; find_exect_teacher compares
\* short_name, whereas find_teacher searches full_name.
C15_ExactFirstEqual ==
    op \in ExactOps /\ FetchedForExact.k = "Ok" =>
      LET equal == SelectSeq(FetchedForExact.v, EqualsInput) IN
      /\ equal # <<>> => result = Ok(equal[1])
      /\ equal = <<>> => result.k = "Err"
      /\ op = "find_exect_teacher" /\ result.k = "Ok" =>
           to_lowercase(result.v.short_name) = to_lowercase(arg)
      /\ op # "find_exect_teacher" /\ RegexFree(arg) /\ result.k = "Ok" =>
           InFoundByFind(result.v)

\* find_exect_group returned the first of two different groups named "A" and
\* "a" for the name "a"
C15_Witness ==
    /\ op = "find_exect_group" /\ arg = <<"a">> /\ FetchedForExact.k = "Ok"
    /\ Len(FetchedForExact.v) = 2
    /\ FetchedForExact.v[1].name = <<"A">> /\ FetchedForExact.v[2].name = <<"a">>
    /\ result = Ok(FetchedForExact.v[1])
    /\ InFoundByFind(result.v)

\* get_schedule returned one Lecture for each element of an array of objects
LecturePerElement ==
    /\ op = "get_schedule" /\ GotArray /\ result.k = "Ok"
    /\ \A k \in 1..Len(envelope.v.a) : IsObject(envelope.v.a[k])
    /\ Len(result.v) = Len(envelope.v.a)

\* C16: in get_schedule the number_pair of every Lecture is in 0..255 and
\* equals the integer value of numberPair in the payload: the narrowing to an
\* unsigned 8-bit integer does not change values such as 256 or -1.
C16_NumberPairPreserved ==
    LecturePerElement =>
      \A k \in 1..Len(result.v) :
        /\ result.v[k].number_pair \in 0..255
        /\ HasNumber(envelope.v.a[k].o, "numberPair") =>
             NumberIs(envelope.v.a[k].o["numberPair"], result.v[k].number_pair)

\* C16, as the code computes it: number_pair is in 0..255 and is
\* `as_i64().unwrap() as u8` of a numberPair that is a number, the low eight
\* bits of the integer.
C16_NumberPairLowBits ==
    LecturePerElement =>
      \A k \in 1..Len(result.v) :
        /\ result.v[k].number_pair \in 0..255
        /\ HasNumber(envelope.v.a[k].o, "numberPair") =>
             result.v[k].number_pair = envelope.v.a[k].o["numberPair"].l[1] % 256

\* startTime or endTime as of the k-th object: the integer of that object,
\* else that of the closest preceding object, else 0
RECURSIVE CarriedTime(_, _, _)
CarriedTime(objects, k, key) ==
    IF k = 0 THEN ZeroLimbs
    ELSE LET obj == objects[k].o IN
         IF HasNumber(obj, key) /\ as_i64(obj[key]).some
         THEN as_i64(obj[key]).v
         ELSE CarriedTime(objects, k - 1, key)

\* the Period built for the k-th object, or the parse error
PeriodOf(objects, k) ==
    Period_from_timestamp(CarriedTime(objects, k, "startTime"),
                          CarriedTime(objects, k, "endTime"))

\* the objects whose Period fails to build
FailingPeriods(objects) == {k \in 1..Len(objects) : PeriodOf(objects, k).k = "Err"}

\* all or nothing on the object elements of the array
AllOrNothing(objects) ==
    LET failing == FailingPeriods(objects) IN
    /\ failing # {} =>
         result = PeriodOf(objects, CHOOSE k \in failing : \A j \in failing : k <= j)
    /\ failing = {} =>
         /\ result.k = "Ok"
         /\ Len(result.v) = Len(objects)
         /\ \A k \in 1..Len(objects) :
              /\ result.v[k].period = PeriodOf(objects, k).v
              /\ HasString(objects[k].o, "auditory") =>
                   result.v[k].lecture_room = objects[k].o["auditory"].s

\* C17: get_schedule is all-or-nothing: if building the Period from the
\* startTime and endTime, possibly carried over, of any element fails, the
\* whole call returns that parse error and none of the Lectures decoded from
\* earlier elements; otherwise the result has exactly one Lecture per object
\* element, in response order.
C17_AllOrNothing ==
    op = "get_schedule" /\ GotArray => AllOrNothing(ObjectsOf(envelope.v.a))

\* C17, as the code computes it: all or nothing on the arrays none of whose
\* object elements makes an unwrap() of the loop panic.
C17_AllOrNothingWithoutPanic ==
    /\ op = "get_schedule" /\ GotArray
    /\ \A k \in 1..Len(envelope.v.a) :
         IsObject(envelope.v.a[k]) => ~lecture_panics(envelope.v.a[k].o)
    => AllOrNothing(ObjectsOf(envelope.v.a))


====
